---- MODULE Spec2Model ----
(***************************************************************************)
(* vCard generator (src/app.py): the escaping helper _escape, the vCard    *)
(* 3.0 serializer build_vcard and the /generate request handler.           *)
(*                                                                         *)
(* A Python str is modelled as a sequence of one-character strings, so     *)
(* that replace, strip, join and the CRLF framing of the record are        *)
(* computed character by character, as the interpreter computes them.     *)
(* Dictionary keys and the loop variable `kind` stay TLA+ strings.         *)
(***************************************************************************)
EXTENDS Integers, Sequences, FiniteSets, TLC

VARIABLES
    data,       \* the request's form fields: the dict built at app.py:212, in item order
    pc,         \* position of the request / of the helper call
    vcf,        \* the text returned by build_vcard
    iso_basic,  \* TRUE when the interpreter's date.fromisoformat also reads YYYYMMDD (3.11 on)
    text,       \* the argument of a direct call of _escape
    escaped,    \* the value that call returned
    response,   \* the Response the handler returned
    builds,     \* how many times the request called build_vcard
    served      \* the requests the process has finished: their form and their record

vars == <<data, pc, vcf, iso_basic, text, escaped, response, builds, served>>

-----------------------------------------------------------------------------
(* Characters *)

CR == "\r"
LF == "\n"
BS == "\\"
CRLF == <<CR, LF>>

\* Python's None, as an argument of _escape: a value that is no str.
None == <<"None">>

\* str.strip() with no argument removes these (of the characters modelled)
Whitespace == {" ", "\t", CR, LF}

Digits == <<"0", "1", "2", "3", "4", "5", "6", "7", "8", "9">>

\* the characters [0-9-] of the pattern at app.py:58
DigitOrHyphen == {Digits[i] : i \in 1..10} \cup {"-"}

-----------------------------------------------------------------------------
(* Bounds of the model *)

\* longest argument of a direct _escape call
MaxLen == 3

\* most fields a drawn request carries
MaxFields == 2

-----------------------------------------------------------------------------
(* Python built-ins, as the interpreter computes them *)

\* str.replace(old, new): leftmost, non-overlapping occurrences, one scan
RECURSIVE replace(_, _, _)
replace(s, old, new) ==
    IF Len(s) < Len(old) THEN s
    ELSE IF SubSeq(s, 1, Len(old)) = old
         THEN new \o replace(SubSeq(s, Len(old) + 1, Len(s)), old, new)
         ELSE <<Head(s)>> \o replace(Tail(s), old, new)

RECURSIVE lstrip(_)
lstrip(s) ==
    IF s # <<>> /\ Head(s) \in Whitespace THEN lstrip(Tail(s)) ELSE s

RECURSIVE rstrip(_)
rstrip(s) ==
    IF s # <<>> /\ s[Len(s)] \in Whitespace
    THEN rstrip(SubSeq(s, 1, Len(s) - 1)) ELSE s

\* str.strip()
strip(s) == rstrip(lstrip(s))

\* sep.join(parts)
RECURSIVE join(_, _)
join(sep, parts) ==
    IF parts = <<>> THEN <<>>
    ELSE IF Len(parts) = 1 THEN parts[1]
    ELSE parts[1] \o sep \o join(sep, Tail(parts))

\* truth value of a str or None in a condition (if x, x or y, any([...]))
truthy(x) == x # None /\ x # <<>>

\* dict.get(key, default)
get(d, key, default) ==
    IF \E i \in 1..Len(d) : d[i].k = key
    THEN d[CHOOSE i \in 1..Len(d) : d[i].k = key].v
    ELSE default

\* str.upper() of the category names the loops range over
upper(kind) ==
    CASE kind = "work" -> <<"W", "O", "R", "K">>
      [] kind = "home" -> <<"H", "O", "M", "E">>
      [] kind = "cell" -> <<"C", "E", "L", "L">>

-----------------------------------------------------------------------------
(* _escape *)

\* a plausible slip: the backslash is doubled last instead of first
escape_backslash_last(text_) ==
    IF text_ = None THEN <<>>
    ELSE LET s1 == replace(replace(text_, <<";">>, <<BS, ";">>), <<",">>, <<BS, ",">>)
             s2 == replace(replace(s1, CRLF, <<BS, "n">>), <<LF>>, <<BS, "n">>)
         IN  replace(s2, <<BS>>, <<BS, BS>>)

\* a plausible slip: only CRLF pairs are replaced, a lone LF is kept
escape_keep_lf(text_) ==
    IF text_ = None THEN <<>>
    ELSE LET s1 == replace(replace(replace(text_, <<BS>>, <<BS, BS>>),
                                   <<";">>, <<BS, ";">>), <<",">>, <<BS, ",">>)
         IN  replace(s1, CRLF, <<BS, "n">>)

\* a plausible slip: line breaks are left in the value
escape_keep_linebreaks(text_) ==
    IF text_ = None THEN <<>>
    ELSE replace(replace(replace(text_, <<BS>>, <<BS, BS>>), <<";">>, <<BS, ";">>),
                 <<",">>, <<BS, ",">>)

_escape(text_) ==
    IF text_ = None THEN <<>>
    ELSE LET s1 == replace(replace(replace(text_, <<BS>>, <<BS, BS>>),
                                   <<";">>, <<BS, ";">>), <<",">>, <<BS, ",">>)
         IN  replace(replace(s1, CRLF, <<BS, "n">>), <<LF>>, <<BS, "n">>)

-----------------------------------------------------------------------------
(* datetime.date.fromisoformat / isoformat, for the forms YYYY-MM-DD and     *)
(* YYYYMMDD (the ISO week forms that 3.11 also reads are not drawn)         *)

IsDigit(c) == \E i \in 1..10 : Digits[i] = c

DigitVal(c) == (CHOOSE i \in 1..10 : Digits[i] = c) - 1

\* int() of a run of decimal digits
RECURSIVE ToInt(_)
ToInt(s) ==
    IF s = <<>> THEN 0
    ELSE 10 * ToInt(SubSeq(s, 1, Len(s) - 1)) + DigitVal(s[Len(s)])

IsLeap(y) == y % 4 = 0 /\ (y % 100 # 0 \/ y % 400 = 0)

DaysInMonth(y, m) ==
    IF m = 2 THEN (IF IsLeap(y) THEN 29 ELSE 28)
    ELSE IF m \in {4, 6, 9, 11} THEN 30 ELSE 31

\* the digit runs of the year, month and day, or <<>> when s has neither form
DateParts(s) ==
    IF Len(s) = 10 /\ s[5] = "-" /\ s[8] = "-"
    THEN <<SubSeq(s, 1, 4), SubSeq(s, 6, 7), SubSeq(s, 9, 10)>>
    ELSE IF iso_basic /\ Len(s) = 8
    THEN <<SubSeq(s, 1, 4), SubSeq(s, 5, 6), SubSeq(s, 7, 8)>>
    ELSE <<>>

\* TRUE when date.fromisoformat(s) returns, FALSE when it raises ValueError
ParsesAsIsoDate(s) ==
    LET p == DateParts(s)
    IN  /\ p # <<>>
        /\ \A i \in 1..3 : \A j \in 1..Len(p[i]) : IsDigit(p[i][j])
        /\ ToInt(p[1]) >= 1
        /\ ToInt(p[2]) \in 1..12
        /\ ToInt(p[3]) \in 1..DaysInMonth(ToInt(p[1]), ToInt(p[2]))

fromisoformat(s) ==
    LET p == DateParts(s)
    IN  [year |-> ToInt(p[1]), month |-> ToInt(p[2]), day |-> ToInt(p[3])]

\* "%0<w>d" % n
RECURSIVE ZeroPad(_, _)
ZeroPad(n, w) ==
    IF w = 0 THEN <<>>
    ELSE ZeroPad(n \div 10, w - 1) \o <<Digits[(n % 10) + 1]>>

\* date.isoformat()
isoformat(d) ==
    ZeroPad(d.year, 4) \o <<"-">> \o ZeroPad(d.month, 2) \o <<"-">> \o ZeroPad(d.day, 2)

IsDigitOrHyphen(c) == c \in DigitOrHyphen

\* re.sub(r"[^0-9-]", "", s)
strip_non_date_chars(s) == SelectSeq(s, IsDigitOrHyphen)

-----------------------------------------------------------------------------
(* build_vcard *)

BEGIN_VCARD == <<"B", "E", "G", "I", "N", ":", "V", "C", "A", "R", "D">>
VERSION_3_0 == <<"V", "E", "R", "S", "I", "O", "N", ":", "3", ".", "0">>
END_VCARD   == <<"E", "N", "D", ":", "V", "C", "A", "R", "D">>

\* the escaped name components, app.py:35-39
prefix(d) == _escape(get(d, "prefix", <<>>))
first(d)  == _escape(get(d, "first_name", <<>>))
addl(d)   == _escape(get(d, "additional", <<>>))
last(d)   == _escape(get(d, "last_name", <<>>))
suffix(d) == _escape(get(d, "suffix", <<>>))

\* a plausible slip: the given name is written before the family name
n_line_given_first(d) ==
    <<"N", ":">> \o first(d) \o <<";">> \o last(d) \o <<";">> \o addl(d)
                 \o <<";">> \o prefix(d) \o <<";">> \o suffix(d)

\* the N line, app.py:63
n_line(d) ==
    <<"N", ":">> \o last(d) \o <<";">> \o first(d) \o <<";">> \o addl(d)
                 \o <<";">> \o prefix(d) \o <<";">> \o suffix(d)

\* fn, app.py:41-42: data.get("full_name") has no default, so it is None when absent
\* (both are falsy); the synthesized name joins the already escaped components
fn(d) ==
    LET full == get(d, "full_name", None)
        raw  == IF truthy(full) THEN full
                ELSE join(<<" ">>, SelectSeq(<<prefix(d), first(d), addl(d), last(d), suffix(d)>>,
                                             truthy))
    IN  _escape(strip(raw))

fn_line(d) == <<"F", "N", ":">> \o fn(d)

\* a plausible slip: the value is written as given, without _escape
optional_line_raw(d, key, name) ==
    LET value == get(d, key, <<>>)
    IN  IF truthy(value) THEN << name \o <<":">> \o value >> ELSE <<>>

\* one optional line "<NAME>:<escaped value>", app.py:44-48, 67-74 and 106-107
optional_line(d, key, name) ==
    LET value == _escape(get(d, key, <<>>))
    IN  IF truthy(value) THEN << name \o <<":">> \o value >> ELSE <<>>

\* the exceptions an `except Exception` clause catches, of those raised here
Exception == {"ValueError"}

\* a plausible slip: the handler names an exception the parse never raises
uncaught_type_error_only(d) ==
    LET b == strip(get(d, "bday", <<>>))
    IN  IF truthy(b) /\ ~ParsesAsIsoDate(b) THEN {"ValueError"} \ {"TypeError"} ELSE {}

\* the exceptions that leave build_vcard: the try block at app.py:53-58 raises
\* ValueError when the date does not parse, and the except clause catches it
uncaught(d) ==
    LET b == strip(get(d, "bday", <<>>))
    IN  IF truthy(b) /\ ~ParsesAsIsoDate(b) THEN {"ValueError"} \ Exception ELSE {}

\* a plausible slip: the fallback keeps the text as it is
bday_keep_text(d) ==
    LET b == strip(get(d, "bday", <<>>))
    IN  IF truthy(b)
        THEN IF ParsesAsIsoDate(b) THEN isoformat(fromisoformat(b)) ELSE b
        ELSE b

\* bday, app.py:51-58
bday(d) ==
    LET b == strip(get(d, "bday", <<>>))
    IN  IF truthy(b)
        THEN IF ParsesAsIsoDate(b) THEN isoformat(fromisoformat(b))
             ELSE strip_non_date_chars(b)
        ELSE b

bday_lines(d) ==
    IF truthy(bday(d)) THEN << <<"B", "D", "A", "Y", ":">> \o bday(d) >> ELSE <<>>

\* one pass of the loops at app.py:79-82 and 85-88
typed_line(d, name, key_prefix, kind) ==
    LET val == strip(get(d, key_prefix \o kind, <<>>))
    IN  IF truthy(val)
        THEN << name \o <<";", "T", "Y", "P", "E", "=">> \o upper(kind) \o <<":">> \o _escape(val) >>
        ELSE <<>>

\* a plausible slip: the loop ranges over ("home", "work")
email_lines_home_first(d) ==
    typed_line(d, <<"E", "M", "A", "I", "L">>, "email_", "home")
    \o typed_line(d, <<"E", "M", "A", "I", "L">>, "email_", "work")

email_lines(d) ==
    typed_line(d, <<"E", "M", "A", "I", "L">>, "email_", "work")
    \o typed_line(d, <<"E", "M", "A", "I", "L">>, "email_", "home")

tel_lines(d) ==
    typed_line(d, <<"T", "E", "L">>, "tel_", "cell")
    \o typed_line(d, <<"T", "E", "L">>, "tel_", "work")
    \o typed_line(d, <<"T", "E", "L">>, "tel_", "home")

\* a plausible slip: the block is emitted only when it has a street
adr_requires_street(d, prefix_key, kind) ==
    LET street  == _escape(get(d, prefix_key \o "_street", <<>>))
        city    == _escape(get(d, prefix_key \o "_city", <<>>))
        region  == _escape(get(d, prefix_key \o "_region", <<>>))
        postal  == _escape(get(d, prefix_key \o "_postal", <<>>))
        country == _escape(get(d, prefix_key \o "_country", <<>>))
    IN  IF truthy(street)
        THEN << <<"A", "D", "R", ";", "T", "Y", "P", "E", "=">> \o upper(kind) \o <<":", ";", ";">>
                \o street \o <<";">> \o city \o <<";">> \o region \o <<";">> \o postal
                \o <<";">> \o country >>
        ELSE <<>>

\* the nested function adr, app.py:91-101
adr(d, prefix_key, kind) ==
    LET street  == _escape(get(d, prefix_key \o "_street", <<>>))
        city    == _escape(get(d, prefix_key \o "_city", <<>>))
        region  == _escape(get(d, prefix_key \o "_region", <<>>))
        postal  == _escape(get(d, prefix_key \o "_postal", <<>>))
        country == _escape(get(d, prefix_key \o "_country", <<>>))
    IN  IF \E x \in {street, city, region, postal, country} : truthy(x)
        THEN << <<"A", "D", "R", ";", "T", "Y", "P", "E", "=">> \o upper(kind) \o <<":", ";", ";">>
                \o street \o <<";">> \o city \o <<";">> \o region \o <<";">> \o postal
                \o <<";">> \o country >>
        ELSE <<>>

\* a plausible slip: the note is appended before the address blocks
lines_note_before_adr(d) ==
    <<BEGIN_VCARD, VERSION_3_0, n_line(d), fn_line(d)>>
    \o optional_line(d, "org", <<"O", "R", "G">>)
    \o optional_line(d, "title", <<"T", "I", "T", "L", "E">>)
    \o optional_line(d, "role", <<"R", "O", "L", "E">>)
    \o optional_line(d, "url", <<"U", "R", "L">>)
    \o bday_lines(d)
    \o email_lines(d)
    \o tel_lines(d)
    \o optional_line(d, "note", <<"N", "O", "T", "E">>)
    \o adr(d, "home", "home")
    \o adr(d, "work", "work")
    \o <<END_VCARD>>

\* the list `lines` when build_vcard joins it, app.py:60-109
lines(d) ==
    <<BEGIN_VCARD, VERSION_3_0, n_line(d), fn_line(d)>>
    \o optional_line(d, "org", <<"O", "R", "G">>)
    \o optional_line(d, "title", <<"T", "I", "T", "L", "E">>)
    \o optional_line(d, "role", <<"R", "O", "L", "E">>)
    \o optional_line(d, "url", <<"U", "R", "L">>)
    \o bday_lines(d)
    \o email_lines(d)
    \o tel_lines(d)
    \o adr(d, "home", "home")
    \o adr(d, "work", "work")
    \o optional_line(d, "note", <<"N", "O", "T", "E">>)
    \o <<END_VCARD>>

\* a plausible slip: `lines` is a module-level list that no call clears, so a call
\* returns the lines of the calls before it too
build_vcard_shared_lines(d) == vcf \o join(CRLF, lines(d)) \o CRLF

build_vcard(d) == join(CRLF, lines(d)) \o CRLF

-----------------------------------------------------------------------------
(* The requests drawn *)

\* the form's fields in document order, app.py:131-189
FormFields ==
    <<"prefix", "first_name", "additional", "last_name", "suffix", "full_name",
      "role", "title", "org", "url", "bday",
      "email_work", "email_home",
      "tel_cell", "tel_work", "tel_home",
      "work_street", "work_postal", "work_city", "work_region", "work_country",
      "home_street", "home_postal", "home_city", "home_region", "home_country",
      "note">>

AllFields == {FormFields[i] : i \in 1..Len(FormFields)}

NameFields == {"prefix", "first_name", "additional", "last_name", "suffix", "full_name"}
SingleFields == {"org", "title", "role", "url", "note"}
TypedFields == {"email_work", "email_home", "tel_cell", "tel_work", "tel_home"}
AdrFields ==
    {"work_street", "work_postal", "work_city", "work_region", "work_country",
     "home_street", "home_postal", "home_city", "home_region", "home_country"}

\* values that exercise escaping and trimming: empty, blank, plain, padded, a
\* separator, the text backslash-n before a closing backslash, both line breaks
RichVals ==
    { <<>>, <<" ">>, <<"a">>, <<" ", "a">>, <<";">>, <<BS, "n", BS>>,
      <<"b", CR, LF>>, <<",", LF, "c">> }

NameVals == RichVals \ { <<"a">>, <<",", LF, "c">> }

AdrVals == { <<>>, <<" ">>, <<";", CR>> }

PlainVals == { <<"a">> }

\* birthdays: valid dates, impossible dates, other text (forms on which every
\* supported interpreter's date.fromisoformat agrees)
BdayVals ==
    { <<>>,
      <<" ">>,
      <<"1", "9", "8", "0", "-", "0", "1", "-", "3", "1">>,
      <<" ", "1", "9", "8", "0", "-", "0", "1", "-", "3", "1", LF>>,
      <<"2", "0", "0", "0", "-", "0", "2", "-", "2", "9">>,
      <<"1", "9", "0", "0", "-", "0", "2", "-", "2", "9">>,
      <<"1", "9", "8", "0", "-", "1", "3", "-", "0", "1">>,
      <<"0", "0", "0", "0", "-", "0", "1", "-", "0", "1">>,
      <<"1", "9", "8", "0", "-", "1", "-", "3", "1">>,
      <<"1", "9", "8", "0", "0", "1", "3", "1">>,
      <<"1", "9", "8", "0", "0", "2", "3", "0">>,
      <<"3", "1", ".", "0", "1", ".", "1", "9", "8", "0">>,
      <<"n", "o", "t", "-", "a", "-", "d", "a", "t", "e">>,
      <<"a", "b", "c">>,
      <<"1", ";", LF, "2">> }

\* the dicts with at most n of the fields K, valued in V, in form order from field i on
RECURSIVE Forms(_, _, _, _)
Forms(i, n, K, V) ==
    IF i > Len(FormFields) \/ n = 0 THEN { <<>> }
    ELSE IF FormFields[i] \notin K THEN Forms(i + 1, n, K, V)
    ELSE Forms(i + 1, n, K, V)
         \cup { << [k |-> FormFields[i], v |-> v] >> \o r : v \in V, r \in Forms(i + 1, n - 1, K, V) }

Reverse(s) == [i \in 1..Len(s) |-> s[Len(s) + 1 - i]]

\* requests that fill the lines whose order in the record is fixed
OrderedLineRequests ==
    Forms(1, MaxFields, TypedFields, RichVals)
    \cup Forms(1, MaxFields, AdrFields, AdrVals)
    \cup Forms(1, MaxFields, AllFields, PlainVals)

RequestsInFormOrder ==
    Forms(1, MaxFields, NameFields, NameVals)
    \cup Forms(1, MaxFields, SingleFields, RichVals)
    \cup Forms(1, 1, {"bday"}, BdayVals)
    \cup OrderedLineRequests

\* values that try to close the record or to open another one
InjectVals == { <<"x", CR, LF>> \o END_VCARD, <<"y", LF>> \o BEGIN_VCARD }

\* the fields that take them: one of each kind of line
InjectFields == {"full_name", "org", "bday", "email_home", "home_city", "note"}

InjectionRequests == Forms(1, MaxFields, InjectFields, InjectVals)

\* a client may send the fields in any order: the requests are drawn in form order,
\* and those that fill order-bound lines in the reverse order too
Requests ==
    RequestsInFormOrder \cup { Reverse(d) : d \in OrderedLineRequests } \cup InjectionRequests

\* the characters of the arguments of the direct _escape calls
Alphabet == { BS, ";", ",", CR, LF, "n", "a" }

RECURSIVE Strings(_)
Strings(n) ==
    IF n = 0 THEN { <<>> }
    ELSE LET S == Strings(n - 1) IN S \cup { Append(s, c) : s \in S, c \in Alphabet }

-----------------------------------------------------------------------------
(* generate_qr_code and the response of the handler *)

\* Python's `a or b` on values that are a str or None: a when it is truthy, else b
or_(a, b) == IF truthy(a) THEN a ELSE b

CONTACT == <<"c", "o", "n", "t", "a", "c", "t">>
DOWNLOAD == <<"d", "o", "w", "n", "l", "o", "a", "d">>
QRCODE == <<"q", "r", "c", "o", "d", "e">>
VCF == <<".", "v", "c", "f">>
PNG == <<".", "p", "n", "g">>

\* the characters the pattern [^A-Za-z0-9_.-] leaves alone
FilenameChars ==
    { "A", "B", "C", "D", "E", "F", "G", "H", "I", "J", "K", "L", "M",
      "N", "O", "P", "Q", "R", "S", "T", "U", "V", "W", "X", "Y", "Z",
      "a", "b", "c", "d", "e", "f", "g", "h", "i", "j", "k", "l", "m",
      "n", "o", "p", "q", "r", "s", "t", "u", "v", "w", "x", "y", "z",
      "_", "." } \cup DigitOrHyphen

\* re.sub(r"[^A-Za-z0-9_.-]", "_", s)
sub_unsafe(s) == [i \in 1..Len(s) |-> IF s[i] \in FilenameChars THEN s[i] ELSE "_"]

\* a plausible slip: the chosen name is not trimmed and has no second fallback
filename_stem_untrimmed(d) ==
    or_(get(d, "last_name", <<>>), or_(get(d, "full_name", <<>>), CONTACT))

\* (data.get("last_name") or data.get("full_name") or "contact").strip() or "contact";
\* a missing key reads as None there and as the empty string here, both falsy
filename_stem(d) ==
    or_(strip(or_(get(d, "last_name", <<>>), or_(get(d, "full_name", <<>>), CONTACT))),
        CONTACT)

\* the file name of the response, app.py:220-221 and 230-231
filename(d, ext) == sub_unsafe(filename_stem(d)) \o ext

\* the headers of the response, app.py:222-225 and 232-235
headers(name, content_type) ==
    [ContentDisposition |->
        <<"a", "t", "t", "a", "c", "h", "m", "e", "n", "t", ";", " ",
          "f", "i", "l", "e", "n", "a", "m", "e", "=", "\"">> \o name \o <<"\"">>,
     ContentType |-> content_type]

\* the longest text, in bytes, a QR symbol holds at error correction level H in the
\* model; the library's ceiling (1273 bytes in byte mode) is scaled down to the
\* lengths of the records drawn here
QrCapacity == 64

\* segno.make raises DataOverflowError for a text no symbol of level H holds
overflows(vcf_data) == Len(vcf_data) > QrCapacity

\* the PNG of the symbol segno makes of vcf_data: the image is determined by the
\* text, the error correction level and the scale, app.py:117-119
generate_qr_code(vcf_data) ==
    [kind |-> "png", content |-> vcf_data, error |-> "h", scale |-> 8]

Response(body, hdrs) == [body |-> body, headers |-> hdrs]

\* no Response object: the handler has not returned
NoResponse == [body |-> <<>>, headers |-> <<>>]

\* the branch `if action == "qrcode"`, app.py:217-227, when the symbol was made
qrcode_response(d, v) ==
    Response(generate_qr_code(v), headers(filename(d, PNG), "image/png"))

\* the branch `else`, app.py:228-237
download_response(d, v) ==
    Response(v, headers(filename(d, VCF), "text/vcard; charset=utf-8"))

\* the values of the form's submit buttons, app.py:184-185, and one no button sends
ActionVals == { DOWNLOAD, QRCODE, <<"q", "r">> }

\* names that pick and shape the file name: empty, blank, with characters the
\* pattern replaces, with inner and surrounding whitespace
FileVals ==
    { <<>>, <<" ">>, <<"O", "'", "B", "r", "i", "e", "n", "!">>,
      <<" ", "J", "o", " ", "D", ".", LF>> }

\* requests with a name for the file and, last as in the form, the button pressed
HandlerRequests ==
    { names \o act :
        names \in Forms(1, MaxFields, {"last_name", "full_name"}, FileVals),
        act \in { <<>> } \cup { << [k |-> "action", v |-> a] >> : a \in ActionVals } }

-----------------------------------------------------------------------------
(* The request handler *)

\* the interpreter's version is drawn where the request has a birthday to parse
Init ==
    /\ data \in Requests \cup HandlerRequests
    /\ iso_basic \in (IF get(data, "bday", <<>>) # <<>> THEN BOOLEAN ELSE {TRUE})
    /\ pc = "request"
    /\ vcf = <<>>
    /\ text = <<>>
    /\ escaped = <<>>
    /\ response = NoResponse
    /\ builds = 0
    /\ served = <<>>

\* POST /generate, app.py:209-237: the form becomes `data`, the record is built from
\* it once, and the branch the action selects returns the response. An exception
\* leaving build_vcard ends the request without a record (pc = "error"); nothing
\* catches the DataOverflowError of generate_qr_code, which leaves the handler
\* without a Response (pc = "overflow")
generate ==
    /\ pc = "request"
    /\ builds' = builds + 1
    /\ IF uncaught(data) # {}
       THEN vcf' = vcf /\ pc' = "error" /\ response' = response
       ELSE LET action == get(data, "action", DOWNLOAD)
                v == build_vcard(data)
            IN  /\ vcf' = v
                /\ IF action = QRCODE
                   THEN IF overflows(v)
                        THEN pc' = "overflow" /\ response' = response
                        ELSE pc' = "done" /\ response' = qrcode_response(data, v)
                   ELSE pc' = "done" /\ response' = download_response(data, v)
    /\ UNCHANGED <<data, iso_basic, text, escaped, served>>

Next == generate

Spec == Init /\ [][Next]_vars

(* A process that serves several requests, one after the other *)

\* how many requests one process serves in the model
MaxCalls == 3

\* the forms it is sent: empty, a name with a separator, two optional lines with a
\* line break, a birthday, an address, a padded e-mail address
CallRequests ==
    { <<>>,
      << [k |-> "last_name", v |-> <<";">>] >>,
      << [k |-> "org", v |-> <<"a">>], [k |-> "note", v |-> <<"b", CR, LF>>] >>,
      << [k |-> "bday", v |-> <<"1", "9", "8", "0", "0", "1", "3", "1">>] >>,
      << [k |-> "home_city", v |-> <<"a">>] >>,
      << [k |-> "email_work", v |-> <<" ", "a">>] >> }

InitCalls ==
    /\ data \in CallRequests
    /\ iso_basic \in BOOLEAN
    /\ pc = "request"
    /\ vcf = <<>>
    /\ text = <<>>
    /\ escaped = <<>>
    /\ response = NoResponse
    /\ builds = 0
    /\ served = <<>>

\* the next POST /generate reaches the process: its handler starts with the new form
\* and its own locals; nothing of the module is reset in between
next_request ==
    /\ pc = "done"
    /\ Len(served) + 1 < MaxCalls
    /\ served' = Append(served, [data |-> data, vcf |-> vcf])
    /\ data' \in CallRequests
    /\ pc' = "request"
    /\ response' = NoResponse
    /\ builds' = 0
    /\ UNCHANGED <<vcf, iso_basic, text, escaped>>

NextCalls == generate \/ next_request

SpecCalls == InitCalls /\ [][NextCalls]_vars

-----------------------------------------------------------------------------
(* Direct calls of _escape *)

InitEscape ==
    /\ text \in Strings(MaxLen) \cup {None}
    /\ pc = "call"
    /\ escaped = <<>>
    /\ data = <<>>
    /\ vcf = <<>>
    /\ iso_basic = TRUE
    /\ response = NoResponse
    /\ builds = 0
    /\ served = <<>>

call_escape ==
    /\ pc = "call"
    /\ escaped' = _escape(text)
    /\ pc' = "returned"
    /\ UNCHANGED <<data, vcf, iso_basic, text, response, builds, served>>

NextEscape == call_escape

SpecEscape == InitEscape /\ [][NextEscape]_vars

-----------------------------------------------------------------------------
(* Reading a record back: what a vCard 3.0 reader does with the text *)

\* the pieces of s from position `start` on, the scan for sep standing at position i
RECURSIVE split_from(_, _, _, _)
split_from(s, sep, start, i) ==
    IF i + Len(sep) - 1 > Len(s) THEN << SubSeq(s, start, Len(s)) >>
    ELSE IF SubSeq(s, i, i + Len(sep) - 1) = sep
         THEN << SubSeq(s, start, i - 1) >> \o split_from(s, sep, i + Len(sep), i + Len(sep))
         ELSE split_from(s, sep, start, i + 1)

\* the pieces of s between the occurrences of sep, found left to right
split(s, sep) == split_from(s, sep, 1, 1)

\* the lines of the record: the pieces before each CRLF
RecordLines ==
    LET pieces == split(vcf, CRLF) IN SubSeq(pieces, 1, Len(pieces) - 1)

StartsWith(s, p) == Len(s) >= Len(p) /\ SubSeq(s, 1, Len(p)) = p

EndsWith(s, p) == Len(s) >= Len(p) /\ SubSeq(s, Len(s) - Len(p) + 1, Len(s)) = p

\* the text of a line before its first ':' or ';'
RECURSIVE PropertyOf(_)
PropertyOf(l) ==
    IF l = <<>> \/ Head(l) \in {":", ";"} THEN <<>>
    ELSE <<Head(l)>> \o PropertyOf(Tail(l))

PropertyNames ==
    { <<"V", "E", "R", "S", "I", "O", "N">>, <<"N">>, <<"F", "N">>, <<"O", "R", "G">>,
      <<"T", "I", "T", "L", "E">>, <<"R", "O", "L", "E">>, <<"U", "R", "L">>,
      <<"B", "D", "A", "Y">>, <<"E", "M", "A", "I", "L">>, <<"T", "E", "L">>,
      <<"A", "D", "R">>, <<"N", "O", "T", "E">> }

\* l is PROPERTY:VALUE or PROPERTY;PARAM:VALUE with a non-empty PARAM
HasPropertyShape(l) ==
    LET name == PropertyOf(l)
        rest == SubSeq(l, Len(name) + 1, Len(l))
    IN  /\ name \in PropertyNames
        /\ rest # <<>>
        /\ \/ Head(rest) = ":"
           \/ /\ Head(rest) = ";"
              /\ LET param == PropertyOf(Tail(rest))
                 IN  /\ param # <<>>
                     /\ Len(rest) > Len(param) + 1
                     /\ rest[Len(param) + 2] = ":"

\* the lines of the record that start with `head`
LinesWith(head) == SelectSeq(RecordLines, LAMBDA l : StartsWith(l, head))

\* the lines of the record whose property is `name`
LinesOf(name) == SelectSeq(RecordLines, LAMBDA l : PropertyOf(l) = name)

ValueAfter(l, head) == SubSeq(l, Len(head) + 1, Len(l))

\* the escaping rule, character by character
RECURSIVE CharWise(_)
CharWise(s) ==
    IF s = <<>> THEN <<>>
    ELSE IF Len(s) >= 2 /\ s[1] = CR /\ s[2] = LF
         THEN <<BS, "n">> \o CharWise(SubSeq(s, 3, Len(s)))
    ELSE IF Head(s) = BS THEN <<BS, BS>> \o CharWise(Tail(s))
    ELSE IF Head(s) = ";" THEN <<BS, ";">> \o CharWise(Tail(s))
    ELSE IF Head(s) = "," THEN <<BS, ",">> \o CharWise(Tail(s))
    ELSE IF Head(s) = LF THEN <<BS, "n">> \o CharWise(Tail(s))
    ELSE <<Head(s)>> \o CharWise(Tail(s))

\* the vCard 3.0 unescaping rules, read left to right
RECURSIVE Unescape(_)
Unescape(s) ==
    IF s = <<>> THEN <<>>
    ELSE IF Head(s) = BS /\ Len(s) >= 2
         THEN (IF s[2] = "n" THEN <<LF>> ELSE <<s[2]>>) \o Unescape(SubSeq(s, 3, Len(s)))
         ELSE <<Head(s)>> \o Unescape(Tail(s))

\* the components of a structured value: the pieces between the semicolons that no
\* backslash escapes
RECURSIVE components_from(_, _)
components_from(s, cur) ==
    IF s = <<>> THEN <<cur>>
    ELSE IF Head(s) = BS /\ Len(s) >= 2
         THEN components_from(SubSeq(s, 3, Len(s)), cur \o <<s[1], s[2]>>)
    ELSE IF Head(s) = ";" THEN <<cur>> \o components_from(Tail(s), <<>>)
    ELSE components_from(Tail(s), Append(cur, Head(s)))

Components(s) == components_from(s, <<>>)

\* the raw value of a field, the empty string when it is absent
Raw(key) == get(data, key, <<>>)

-----------------------------------------------------------------------------
(* C1: the record is framed by BEGIN:VCARD / VERSION:3.0 and END:VCARD, every line
   ends with CRLF, and every line but BEGIN and END is PROPERTY[;PARAM]:VALUE with a
   property of the fixed set *)
C1_RecordFraming ==
    pc = "done" =>
        /\ StartsWith(vcf, BEGIN_VCARD \o CRLF \o VERSION_3_0 \o CRLF)
        /\ EndsWith(vcf, CRLF \o END_VCARD \o CRLF)
        /\ LET ls == RecordLines
           IN  \A i \in 1..Len(ls) :
                  \/ i = 1 /\ ls[i] = BEGIN_VCARD
                  \/ i = Len(ls) /\ ls[i] = END_VCARD
                  \/ HasPropertyShape(ls[i])

\* a record was built from a value that holds a CRLF pair
C1_Witness ==
    /\ pc = "done"
    /\ Raw("note") = <<"b", CR, LF>>
    /\ Len(RecordLines) = 6

(* C2: there is exactly one N line, "N:" followed by the five escaped components
   last;first;additional;prefix;suffix, and its value splits at the unescaped
   semicolons into exactly five components *)
C2_NameLine ==
    pc = "done" =>
        LET ns == LinesOf(<<"N">>)
        IN  /\ ns = << <<"N", ":">> \o CharWise(Raw("last_name")) \o <<";">>
                       \o CharWise(Raw("first_name")) \o <<";">>
                       \o CharWise(Raw("additional")) \o <<";">>
                       \o CharWise(Raw("prefix")) \o <<";">>
                       \o CharWise(Raw("suffix")) >>
            /\ \A i \in 1..Len(ns) : Len(Components(ValueAfter(ns[i], <<"N", ":">>))) = 5

\* a record whose family name ends in a backslash and whose given name is a semicolon:
\* its N value reads N:\\n\\;\;;;;
C2_Witness ==
    /\ pc = "done"
    /\ Raw("last_name") = <<BS, "n", BS>>
    /\ Raw("first_name") = <<";">>
    /\ Len(LinesOf(<<"N">>)) = 1

(* C4: _escape returns its argument with each backslash doubled, each ';' and ','
   preceded by a backslash, each CRLF pair and each lone LF replaced by backslash-n,
   every other character (a lone CR too) copied; None gives the empty string *)
C4_EscapeCharWise ==
    pc = "returned" => escaped = (IF text = None THEN <<>> ELSE CharWise(text))

\* _escape returned for an argument with a lone CR before a CRLF pair
C4_Witness ==
    /\ pc = "returned"
    /\ text = <<CR, CR, LF>>
    /\ escaped = <<CR, BS, "n">>

\* no name field of the request starts or ends with whitespace, so that the trimming
\* at app.py:42 changes nothing
NamesAreTrimmed == \A key \in NameFields : strip(Raw(key)) = Raw(key)

(* C3: there is exactly one FN line; its value is escape(full_name) when full_name is
   supplied, and otherwise the escape, applied once, of the non-empty raw values of
   prefix, first_name, additional, last_name, suffix joined by single spaces (stated
   here for the requests whose name fields carry no surrounding whitespace) *)
C3_DisplayName ==
    pc = "done" /\ NamesAreTrimmed =>
        LinesOf(<<"F", "N">>) =
            << <<"F", "N", ":">> \o
               CharWise(IF Raw("full_name") # <<>> THEN Raw("full_name")
                        ELSE join(<<" ">>,
                                  SelectSeq(<<Raw("prefix"), Raw("first_name"), Raw("additional"),
                                              Raw("last_name"), Raw("suffix")>>,
                                            LAMBDA x : x # <<>>))) >>

-----------------------------------------------------------------------------
(* The values a reader finds in the record for a field *)

\* how the record spells each single-valued and typed property
Heads ==
    [org   |-> <<"O", "R", "G", ":">>,
     title |-> <<"T", "I", "T", "L", "E", ":">>,
     role  |-> <<"R", "O", "L", "E", ":">>,
     url   |-> <<"U", "R", "L", ":">>,
     note  |-> <<"N", "O", "T", "E", ":">>,
     full_name  |-> <<"F", "N", ":">>,
     email_work |-> <<"E", "M", "A", "I", "L", ";", "T", "Y", "P", "E", "=", "W", "O", "R", "K", ":">>,
     email_home |-> <<"E", "M", "A", "I", "L", ";", "T", "Y", "P", "E", "=", "H", "O", "M", "E", ":">>,
     tel_cell   |-> <<"T", "E", "L", ";", "T", "Y", "P", "E", "=", "C", "E", "L", "L", ":">>,
     tel_work   |-> <<"T", "E", "L", ";", "T", "Y", "P", "E", "=", "W", "O", "R", "K", ":">>,
     tel_home   |-> <<"T", "E", "L", ";", "T", "Y", "P", "E", "=", "H", "O", "M", "E", ":">>,
     home  |-> <<"A", "D", "R", ";", "T", "Y", "P", "E", "=", "H", "O", "M", "E", ":">>,
     work  |-> <<"A", "D", "R", ";", "T", "Y", "P", "E", "=", "W", "O", "R", "K", ":">>]

\* the position of each component in the N value and in an ADR value
NameSlot == [last_name |-> 1, first_name |-> 2, additional |-> 3, prefix |-> 4, suffix |-> 5]
AdrSlot == [street |-> 3, city |-> 4, region |-> 5, postal |-> 6, country |-> 7]
AdrParts == {"street", "city", "region", "postal", "country"}

\* the values of the lines that start with `head`
ValuesWith(head) ==
    LET ls == LinesWith(head) IN [i \in 1..Len(ls) |-> ValueAfter(ls[i], head)]

\* component `slot` of each of the structured values vs
Slot(vs, slot) ==
    LET having == SelectSeq(vs, LAMBDA v : Len(Components(v)) >= slot)
    IN  [i \in 1..Len(having) |-> Components(having[i])[slot]]

\* the escaped values the record carries for the field `key`, as a reader finds them
Emitted(key) ==
    IF key \in DOMAIN NameSlot THEN Slot(ValuesWith(<<"N", ":">>), NameSlot[key])
    ELSE IF key \in DOMAIN Heads THEN ValuesWith(Heads[key])
    ELSE IF \E part \in AdrParts : key = "home_" \o part
         THEN Slot(ValuesWith(Heads.home),
                   AdrSlot[CHOOSE part \in AdrParts : key = "home_" \o part])
    ELSE IF \E part \in AdrParts : key = "work_" \o part
         THEN Slot(ValuesWith(Heads.work),
                   AdrSlot[CHOOSE part \in AdrParts : key = "work_" \o part])
    ELSE <<>>

HasSpecial(s) == \E i \in 1..Len(s) : s[i] \in {",", ";", BS, LF}

\* the fields whose value build_vcard escapes
EscapedFields == AllFields \ {"bday"}

\* the fields build_vcard trims before it escapes them
TrimmedFields == TypedFields \cup {"full_name"}

\* every CRLF pair read as one line break
OneLineBreak(s) == replace(s, CRLF, <<LF>>)

(* C5 as stated: a value that holds ',', ';', a backslash or a line break is recovered
   exactly by unescaping what the record carries for its field *)
C5_RoundTripExact ==
    pc = "done" =>
        \A key \in EscapedFields :
            HasSpecial(Raw(key)) =>
                LET vs == Emitted(key)
                IN  \A i \in 1..Len(vs) : Unescape(vs[i]) = Raw(key)

(* C5 amended: unescaping what the record carries for a field recovers the field's
   value with every CRLF pair turned into a single LF, so exactly the value when it
   holds no CRLF pair; for EMAIL, TEL and a supplied full_name it is the value trimmed
   of surrounding whitespace that is recovered so *)
C5_RoundTripLineBreaks ==
    pc = "done" =>
        \A key \in EscapedFields :
            HasSpecial(Raw(key)) =>
                LET vs == Emitted(key)
                IN  \A i \in 1..Len(vs) :
                        Unescape(vs[i]) =
                            OneLineBreak(IF key \in TrimmedFields THEN strip(Raw(key))
                                         ELSE Raw(key))

\* a note with a CRLF pair was built into a record and reads back with a single LF
C5_Witness ==
    /\ pc = "done"
    /\ Raw("note") = <<"b", CR, LF>>
    /\ Emitted("note") = << <<"b", BS, "n">> >>
    /\ Unescape(Emitted("note")[1]) = <<"b", LF>>

-----------------------------------------------------------------------------
\* the lines "<head><escaped value>" a field is expected to give: one when `present`
Expected(present, head, value) == IF present THEN << head \o CharWise(value) >> ELSE <<>>

(* C6: each of org, title, role, url, note gives its line, with the escaped value, if
   and only if the value is non-empty after trimming surrounding whitespace *)
C6_SingleValuedAfterTrimming ==
    pc = "done" =>
        \A key \in SingleFields :
            LinesWith(Heads[key]) = Expected(strip(Raw(key)) # <<>>, Heads[key], Raw(key))

-----------------------------------------------------------------------------
\* the canonical YYYY-MM-DD spelling of a date text that parsed: its digits, regrouped
Canonical(b) ==
    LET ds == SelectSeq(b, IsDigit)
    IN  SubSeq(ds, 1, 4) \o <<"-">> \o SubSeq(ds, 5, 6) \o <<"-">> \o SubSeq(ds, 7, 8)

BdayHead == <<"B", "D", "A", "Y", ":">>

(* C7 as stated: a birthday that is provided and does not parse still gives a BDAY line *)
C7_MalformedBirthdayGivesLine ==
    pc = "done" /\ Raw("bday") # <<>> /\ ~ParsesAsIsoDate(strip(Raw("bday"))) =>
        Len(LinesWith(BdayHead)) = 1

(* C7 amended: no BDAY line for an empty or absent birthday; BDAY:<canonical date> for
   one that parses; for one that does not parse the build still succeeds and the line
   carries the input without the characters that are no digit or hyphen, unless
   nothing is left of it, and then no BDAY line is emitted; an emitted BDAY value
   holds digits and hyphens only *)
C7_Birthday ==
    /\ pc # "error"
    /\ pc = "done" =>
          LET b == Raw("bday")
              kept == SelectSeq(b, IsDigitOrHyphen)
              bs == LinesWith(BdayHead)
          IN  /\ bs = (IF b = <<>> THEN <<>>
                       ELSE IF ParsesAsIsoDate(strip(b)) THEN << BdayHead \o Canonical(strip(b)) >>
                       ELSE IF kept = <<>> THEN <<>>
                       ELSE << BdayHead \o kept >>)
              /\ LinesOf(<<"B", "D", "A", "Y">>) = bs
              /\ \A i \in 1..Len(bs) :
                    \A j \in (Len(BdayHead) + 1)..Len(bs[i]) : bs[i][j] \in DigitOrHyphen

\* a record was built from a birthday that does not parse and kept only its hyphens
C7_Witness ==
    /\ pc = "done"
    /\ Raw("bday") = <<"n", "o", "t", "-", "a", "-", "d", "a", "t", "e">>
    /\ LinesWith(BdayHead) = << BdayHead \o <<"-", "-">> >>

-----------------------------------------------------------------------------
\* the EMAIL and TEL lines of the record, in the record's order
EmailLines == LinesOf(<<"E", "M", "A", "I", "L">>)
TelLines == LinesOf(<<"T", "E", "L">>)

(* C8 as stated: each category gives its line, with the escaped value, if and only if
   its field is non-empty; EMAIL lines in the order WORK, HOME and TEL lines in the
   order CELL, WORK, HOME *)
C8_TypedLinesUntrimmed ==
    pc = "done" =>
        /\ EmailLines =
              Expected(Raw("email_work") # <<>>, Heads.email_work, Raw("email_work"))
              \o Expected(Raw("email_home") # <<>>, Heads.email_home, Raw("email_home"))
        /\ TelLines =
              Expected(Raw("tel_cell") # <<>>, Heads.tel_cell, Raw("tel_cell"))
              \o Expected(Raw("tel_work") # <<>>, Heads.tel_work, Raw("tel_work"))
              \o Expected(Raw("tel_home") # <<>>, Heads.tel_home, Raw("tel_home"))

\* the lines a typed field is expected to give once it is trimmed
ExpectedTrimmed(key) == Expected(strip(Raw(key)) # <<>>, Heads[key], strip(Raw(key)))

(* C8 amended: each category gives one line, carrying the escape of the value trimmed
   of surrounding whitespace, if and only if its field is non-empty after that
   trimming; at most one line per category; EMAIL lines in the order WORK, HOME and
   TEL lines in the order CELL, WORK, HOME, whatever the order of the request's keys *)
C8_TypedLines ==
    pc = "done" =>
        /\ EmailLines = ExpectedTrimmed("email_work") \o ExpectedTrimmed("email_home")
        /\ TelLines = ExpectedTrimmed("tel_cell") \o ExpectedTrimmed("tel_work")
                      \o ExpectedTrimmed("tel_home")

\* a request that names email_home before email_work gave both lines, WORK first
C8_Witness ==
    /\ pc = "done"
    /\ Len(data) = 2
    /\ data[1].k = "email_home" /\ data[2].k = "email_work"
    /\ data[2].v = <<" ", "a">>
    /\ Len(EmailLines) = 2
    /\ EmailLines[1] = Heads.email_work \o <<"a">>

-----------------------------------------------------------------------------
\* the ADR line the block `kind` is expected to give
ExpectedAdr(kind) ==
    LET part(name) == Raw(kind \o "_" \o name)
    IN  IF \E name \in AdrParts : part(name) # <<>>
        THEN << Heads[kind] \o <<";", ";">> \o CharWise(part("street")) \o <<";">>
                \o CharWise(part("city")) \o <<";">> \o CharWise(part("region")) \o <<";">>
                \o CharWise(part("postal")) \o <<";">> \o CharWise(part("country")) >>
        ELSE <<>>

AdrLines == LinesOf(<<"A", "D", "R">>)

(* C9: each address block gives exactly one ADR line if and only if one of its five
   sub-fields is non-empty; the value has seven components, two empty slots and the
   five escaped sub-fields; the blocks are decided independently and HOME precedes WORK *)
C9_AddressBlocks ==
    pc = "done" =>
        LET as == AdrLines
        IN  /\ as = ExpectedAdr("home") \o ExpectedAdr("work")
            /\ \A i \in 1..Len(as) :
                  LET cs == Components(ValueAfter(as[i], Heads.home))
                  IN  Len(cs) = 7 /\ cs[1] = <<>> /\ cs[2] = <<>>

\* both blocks were emitted, from a request that names the work block first and
\* holds a semicolon in a sub-field
C9_Witness ==
    /\ pc = "done"
    /\ Len(data) = 2
    /\ data[1].k = "work_street" /\ data[1].v = <<";", CR>>
    /\ data[2].k = "home_city"
    /\ Len(AdrLines) = 2
    /\ StartsWith(AdrLines[1], Heads.home)

-----------------------------------------------------------------------------
MinimalRecord ==
    BEGIN_VCARD \o CRLF \o VERSION_3_0 \o CRLF \o <<"N", ":", ";", ";", ";", ";">> \o CRLF
    \o <<"F", "N", ":">> \o CRLF \o END_VCARD \o CRLF

(* C10: build_vcard raises for no request, a malformed birthday included, and always
   returns a record; for the empty mapping the record is exactly the five lines
   BEGIN:VCARD, VERSION:3.0, N:;;;;, FN:, END:VCARD, each ended by CRLF *)
C10_Total ==
    /\ pc # "error"
    /\ uncaught(data) = {}
    /\ pc = "done" => EndsWith(vcf, END_VCARD \o CRLF)
    /\ pc = "done" /\ data = <<>> => vcf = MinimalRecord

\* the record of the empty mapping was built
C10_Witness ==
    /\ pc = "done"
    /\ data = <<>>
    /\ Len(RecordLines) = 5

-----------------------------------------------------------------------------
\* the heads of the lines, in the order the claim fixes
LineOrder ==
    << BEGIN_VCARD, VERSION_3_0, <<"N", ":">>, Heads.full_name,
       Heads.org, Heads.title, Heads.role, Heads.url, BdayHead,
       Heads.email_work, Heads.email_home,
       Heads.tel_cell, Heads.tel_work, Heads.tel_home,
       Heads.home, Heads.work, Heads.note, END_VCARD >>

\* the framing lines are whole lines, the others are recognised by their head
IsLineOfRank(l, i) ==
    IF i \in {1, 2, Len(LineOrder)} THEN l = LineOrder[i] ELSE StartsWith(l, LineOrder[i])

\* the place of a line in that order, 0 for a line that has none
Rank(l) ==
    IF \E i \in 1..Len(LineOrder) : IsLineOfRank(l, i)
    THEN CHOOSE i \in 1..Len(LineOrder) : IsLineOfRank(l, i)
    ELSE 0

(* C16: the lines of a record follow one fixed order: BEGIN:VCARD, VERSION:3.0, N, FN,
   then those emitted of ORG, TITLE, ROLE, URL, BDAY, EMAIL WORK, EMAIL HOME, TEL CELL,
   TEL WORK, TEL HOME, ADR HOME, ADR WORK, NOTE, then END:VCARD; the ranks of the lines
   increase strictly, so no property line precedes FN or follows END:VCARD, NOTE is the
   last property, and the presence of one optional line never reorders the others *)
C16_LineOrder ==
    pc = "done" =>
        LET ls == RecordLines
            r == [i \in 1..Len(ls) |-> Rank(ls[i])]
        IN  /\ Len(ls) >= 5
            /\ \A i \in 1..4 : r[i] = i
            /\ r[Len(ls)] = Len(LineOrder)
            /\ \A i \in 1..Len(ls) : r[i] # 0
            /\ \A i \in 1..(Len(ls) - 1) : r[i] < r[i + 1]

\* the request names the note before a home address field, and the record carries
\* the ADR line before the NOTE line
C16_Witness ==
    /\ pc = "done"
    /\ Len(data) = 2
    /\ data[1].k = "note" /\ data[2].k = "home_city"
    /\ Len(RecordLines) = 7
    /\ StartsWith(RecordLines[5], Heads.home)
    /\ StartsWith(RecordLines[6], Heads.note)

-----------------------------------------------------------------------------
\* the number of optional properties the request gives rise to: a single-valued field
\* that is not empty, a typed field that is not blank, an address block with a
\* non-empty sub-field, a birthday of which a date or some digit or hyphen is kept
OptionalDue ==
    LET b == Raw("bday")
    IN  Cardinality({ key \in SingleFields : Raw(key) # <<>> })
        + Cardinality({ key \in TypedFields : strip(Raw(key)) # <<>> })
        + Cardinality({ kind \in {"home", "work"} :
                          \E part \in AdrParts : Raw(kind \o "_" \o part) # <<>> })
        + (IF b # <<>> /\ (ParsesAsIsoDate(strip(b)) \/ SelectSeq(b, IsDigitOrHyphen) # <<>>)
           THEN 1 ELSE 0)

(* C17: no field value injects structure: a line feed occurs in the record only right
   after a carriage return, as the end of a line; the record splits on CRLF into
   exactly 5 + k lines, k the number of optional properties emitted; exactly one line
   is BEGIN:VCARD and exactly one is END:VCARD *)
C17_NoInjection ==
    pc = "done" =>
        LET ls == RecordLines
        IN  /\ \A i \in 1..Len(vcf) : vcf[i] = LF => i > 1 /\ vcf[i - 1] = CR
            /\ Cardinality({ i \in 1..Len(vcf) : vcf[i] = LF }) = Len(ls)
            /\ Len(ls) = 5 + OptionalDue
            /\ Cardinality({ i \in 1..Len(ls) : ls[i] = BEGIN_VCARD }) = 1
            /\ Cardinality({ i \in 1..Len(ls) : ls[i] = END_VCARD }) = 1

\* a note that holds CRLF and the text END:VCARD was written as one NOTE line
C17_Witness ==
    /\ pc = "done"
    /\ Raw("note") = <<"x", CR, LF>> \o END_VCARD
    /\ Len(data) = 1
    /\ Len(RecordLines) = 6
    /\ RecordLines[5] = Heads.note \o <<"x", BS, "n">> \o END_VCARD

-----------------------------------------------------------------------------
(* The response as a client reads it *)

AttachmentHead ==
    <<"a", "t", "t", "a", "c", "h", "m", "e", "n", "t", ";", " ",
      "f", "i", "l", "e", "n", "a", "m", "e", "=", "\"">>

\* the file name between the quotes of the Content-Disposition header
SentName ==
    LET cd == response.headers.ContentDisposition
    IN  SubSeq(cd, Len(AttachmentHead) + 1, Len(cd) - 1)

SafeAlphabet ==
    <<"A", "B", "C", "D", "E", "F", "G", "H", "I", "J", "K", "L", "M", "N", "O", "P", "Q",
      "R", "S", "T", "U", "V", "W", "X", "Y", "Z", "a", "b", "c", "d", "e", "f", "g", "h",
      "i", "j", "k", "l", "m", "n", "o", "p", "q", "r", "s", "t", "u", "v", "w", "x", "y",
      "z", "0", "1", "2", "3", "4", "5", "6", "7", "8", "9", "_", ".", "-">>

IsSafe(c) == \E i \in 1..Len(SafeAlphabet) : SafeAlphabet[i] = c

\* s with '_' in place of each character outside [A-Za-z0-9_.-]
RECURSIVE Safe(_)
Safe(s) ==
    IF s = <<>> THEN <<>>
    ELSE <<(IF IsSafe(Head(s)) THEN Head(s) ELSE "_")>> \o Safe(Tail(s))

\* the name the claim picks: last_name if provided, else full_name, else 'contact'
ChosenName ==
    IF Raw("last_name") # <<>> THEN Raw("last_name")
    ELSE IF Raw("full_name") # <<>> THEN Raw("full_name")
    ELSE CONTACT

\* the suffix of the mode the request asks for
Suffix == IF Raw("action") = QRCODE THEN PNG ELSE VCF

(* C13 as stated: the stem of the file name is last_name if provided, otherwise
   full_name if provided, otherwise 'contact', with '_' for each character outside
   [A-Za-z0-9_.-]; it is never empty; the suffix is .vcf or .png by mode *)
C13_FilenameAsStated ==
    pc = "done" =>
        /\ SentName = Safe(ChosenName) \o Suffix
        /\ Safe(ChosenName) # <<>>

(* C13 amended: the stem is taken from last_name if provided, otherwise full_name if
   provided, otherwise 'contact'; the chosen value is trimmed of surrounding
   whitespace and gives way to 'contact' when nothing is left of it; then '_'
   replaces each character outside [A-Za-z0-9_.-] (O'Brien! gives O_Brien_); the
   stem is never empty; the suffix is .vcf for download and .png for qrcode, both
   modes deriving the stem alike *)
C13_Filename ==
    pc = "done" =>
        LET trimmed == strip(ChosenName)
            stem == IF trimmed = <<>> THEN CONTACT ELSE trimmed
        IN  /\ SentName = Safe(stem) \o Suffix
            /\ Len(SentName) > Len(Suffix)
            /\ \A i \in 1..Len(SentName) : IsSafe(SentName[i])
            /\ Raw("last_name") = <<"O", "'", "B", "r", "i", "e", "n", "!">> =>
                  SentName = <<"O", "_", "B", "r", "i", "e", "n", "_">> \o Suffix

\* a QR image was returned for a blank last_name and a full_name: the file is
\* contact.png
C13_Witness ==
    /\ pc = "done"
    /\ Raw("last_name") = <<" ">>
    /\ Raw("full_name") = <<"O", "'", "B", "r", "i", "e", "n", "!">>
    /\ Raw("action") = QRCODE
    /\ SentName = CONTACT \o PNG

-----------------------------------------------------------------------------
(* C12: when the action is qrcode and the record exceeds what a symbol of level H
   holds, the request still ends with a response, and that response reports the
   failure to the user: it is no PNG *)
C12_OverflowSurfaced ==
    pc # "request" /\ Raw("action") = QRCODE /\ Len(vcf) > QrCapacity =>
        /\ pc = "done"
        /\ response # NoResponse
        /\ response.headers.ContentType # "image/png"

-----------------------------------------------------------------------------
\* the file name the request is due, by the derivation of C13
FileNameDue ==
    LET trimmed == strip(ChosenName)
    IN  Safe(IF trimmed = <<>> THEN CONTACT ELSE trimmed) \o Suffix

\* the request has no action field
NoAction == \A i \in 1..Len(data) : data[i].k # "action"

\* the response is an attachment under the file name the request is due
IsAttachment ==
    /\ response.headers.ContentDisposition = AttachmentHead \o FileNameDue \o <<"\"">>
    /\ DOMAIN response.headers = {"ContentDisposition", "ContentType"}

\* the response is the PNG of the QR symbol of the record
IsQrOfRecord ==
    /\ pc = "done"
    /\ response.headers.ContentType = "image/png"
    /\ response.body.kind = "png"
    /\ response.body.content = build_vcard(data)
    /\ IsAttachment

\* the response is the record itself
IsRecord ==
    /\ pc = "done"
    /\ response.headers.ContentType = "text/vcard; charset=utf-8"
    /\ response.body = build_vcard(data)
    /\ IsAttachment

(* C14 as stated: a request with action qrcode yields an image/png response whose
   body is the QR encoding of the record; a request with action download or without
   action yields a text/vcard; charset=utf-8 response whose body is the record; both
   are attachments under the computed file name; the record is built once *)
C14_OutputModeAsStated ==
    pc # "request" =>
        /\ builds = 1
        /\ Raw("action") = QRCODE => IsQrOfRecord
        /\ Raw("action") = DOWNLOAD \/ NoAction => IsRecord

(* C14 within the QR capacity: a request with action qrcode whose record does not
   exceed the capacity yields an image/png response whose body is the QR encoding of
   exactly the record build_vcard returns; a request with action download or without
   action yields a text/vcard; charset=utf-8 response whose body is exactly that
   record; both are attachments under the computed file name; every request builds
   the record exactly once *)
C14_OutputMode ==
    pc # "request" =>
        /\ builds = 1
        /\ Raw("action") = QRCODE /\ Len(build_vcard(data)) <= QrCapacity => IsQrOfRecord
        /\ Raw("action") = DOWNLOAD \/ NoAction => IsRecord

\* a QR image was returned for a request that names O'Brien! as full_name and asks
\* for qrcode
C14_Witness ==
    /\ pc = "done"
    /\ Raw("action") = QRCODE
    /\ Raw("full_name") = <<"O", "'", "B", "r", "i", "e", "n", "!">>
    /\ Raw("last_name") = <<>>
    /\ response.headers.ContentType = "image/png"
    /\ response.body.content = vcf
    /\ SentName = <<"O", "_", "B", "r", "i", "e", "n", "_">> \o PNG

-----------------------------------------------------------------------------
\* the calls of build_vcard the process has completed, in order: argument and result
Calls ==
    served \o (IF pc = "done" THEN << [data |-> data, vcf |-> vcf] >> ELSE <<>>)

(* C11: build_vcard is deterministic and stateless: two calls with identical field
   mappings return identical text, whatever calls with other inputs come before or
   between them, and a call leaves the mapping it was given as it was *)
C11_Deterministic ==
    /\ [](\A i, j \in 1..Len(Calls) :
            Calls[i].data = Calls[j].data => Calls[i].vcf = Calls[j].vcf)
    /\ [][pc = "request" => data' = data]_vars

\* the same form was served first and third, with another one in between, and gave
\* the same record both times
C11_Witness ==
    /\ Len(Calls) = 3
    /\ Calls[1].data = << [k |-> "last_name", v |-> <<";">>] >>
    /\ Calls[2].data = << [k |-> "home_city", v |-> <<"a">>] >>
    /\ Calls[3].data = Calls[1].data
    /\ Calls[3].vcf = Calls[1].vcf
    /\ Calls[2].vcf # Calls[1].vcf

====
